---- MODULE Spec2Model ----
(***************************************************************************)
(* Fruitopian Defender: the unit lifecycle state machine, the parking      *)
(* space TokenPool, the combat resolver, the enemy spawner and the frame   *)
(* driver (experiments/src/game.rs, helpers.rs, lib.rs).                   *)
(*                                                                         *)
(* Time is held in whole seconds.  A Timer is the pair duration/elapsed of *)
(* helpers.rs; a percentage (elapsed / duration) is held as the exact      *)
(* fraction [n, d] and compared by cross multiplication.  Health is held   *)
(* as a multiple of 1/60, so that 0.25 and delta/15 are both whole.        *)
(***************************************************************************)
EXTENDS Integers, Sequences, FiniteSets

(* ------------------------------ bounds -------------------------------- *)

\* Units spawned by init_stuff (8 in the game; scaled down).
NUnits == 2
\* Parking spaces of the pool (3 in the game; scaled down so that the pool
\* fills with NUnits units).
MaxCount == 1
\* Spawn events the spawner harness follows.
MaxRampSpawns == 115
\* Seconds the timer harness lets a timer run.
MaxTimerElapsed == 50
\* Live enemies the model lets the spawner accumulate.
MaxEnemies == 2
\* Spawn events the model follows (each one shrinks the mean).
MaxSpawns == 4

\* Frame deltas the clock may report, in seconds.
Deltas == {5, 10}
\* Values the normal distribution may return, in seconds, before the clamp.
Samples == {-2, 6, 14}
\* Combat types the player and the random generator choose among.
TypesUsed == {"A", "B"}

UnitIds == 1..NUnits

(* ---------------------------- CombatType ------------------------------ *)

CombatType == {"A", "B", "C", "D"}
NoType == "-"

(* ------------------------------- Timer -------------------------------- *)

\* Timer::new / Timer::from_seconds: elapsed starts at Duration::default().
from_seconds(d) == [duration |-> d, elapsed |-> 0]

NoTimer == [duration |-> 0, elapsed |-> 0]

\* Mutant of TimerTick: the delta replaces what has elapsed.
TimerTick_overwrites(t, d) == [t EXCEPT !.elapsed = d]

\* Timer::tick: elapsed += delta.
TimerTick(t, d) == [t EXCEPT !.elapsed = @ + d]

\* Mutant of finished: done as soon as elapsed reaches the duration.
finished_at_duration(t) == t.elapsed >= t.duration

\* Timer::finished: elapsed > duration.
finished(t) == t.elapsed > t.duration

\* Timer::percent: elapsed / duration, as a fraction.
percent(t) == [n |-> t.elapsed, d |-> t.duration]

\* Timer::percent_left: 1.0 - percent().
percent_left(t) == [n |-> t.duration - t.elapsed, d |-> t.duration]

\* a >= b on fractions with positive denominators.
FracGE(a, b) == a.n * b.d >= b.n * a.d

(* ------------------------------- Health ------------------------------- *)

SECONDS_TO_FULLY_REPAIR == 15

\* 1.0 in health units (1/60).
HealthFull == 4 * SECONDS_TO_FULLY_REPAIR

\* 0.25 in health units.
HitCost == HealthFull \div 4

Min(a, b) == IF a < b THEN a ELSE b
Max(a, b) == IF a > b THEN a ELSE b

\* Mutant of HealthRepairTick: the sum is not capped.
HealthRepairTick_uncapped(h, d) == h + 4 * d

\* Health::repair_tick: (h + delta / 15).min(1.0).
HealthRepairTick(h, d) == Min(h + (d * HealthFull) \div SECONDS_TO_FULLY_REPAIR, HealthFull)

(* ----------------------------- TokenPool ------------------------------ *)

\* A unit record: the Unit variant with its payload (timer, token, combat
\* type), its Health component and whether the entity is still spawned.
\* token is the number of Token<ParkingSpace> handles the variant holds.
States == {"InStorage", "UnStoring", "ParkedUnready", "ParkedPreparing", "ParkedReady",
           "Patrolling", "Returning", "WaitingToPark", "Storing", "Parking"}

MkUnit(s, t, k, c, h) ==
    [state |-> s, timer |-> t, token |-> k, combat_type |-> c, health |-> h, alive |-> TRUE]

\* Arc::strong_count(&token_holder): the pool's own handle plus every clone
\* that is still owned: by a spawned unit's variant, or by the harness.
RECURSIVE SumTokens(_, _)
SumTokens(us, n) ==
    IF n = 0 THEN 0
    ELSE (IF us[n].alive THEN us[n].token ELSE 0) + SumTokens(us, n - 1)

strong_count(us, held) == 1 + SumTokens(us, NUnits) + held

\* Mutant of can_take: the comparison is off by one.
can_take_one_more(sc) == sc < MaxCount + 2

\* TokenPool::can_take.
can_take(sc) == sc < MaxCount + 1

\* TokenPool::slots_used.
slots_used(sc) == sc - 1

\* Mutant of try_take: the capacity check is left out.
try_take_unchecked(sc) == 1

\* TokenPool::try_take: the number of handles it returns (0 is None).
try_take(sc) == IF ~can_take(sc) THEN 0 ELSE 1

(* -------------------------------- Unit -------------------------------- *)

\* Timer::from_seconds arguments of the unit transitions and of Enemy::new.
UnStoringSeconds == 10
PreparingSeconds == 5
PatrollingSeconds == 30
StoringSeconds == 10
ParkingSeconds == 5
EnemyRunSeconds == 30

\* The result of a unit method: the unit afterwards, and whether the call
\* panicked (the unit is then as it was).
Ok(u) == [unit |-> u, panicked |-> FALSE]
Panic(u) == [unit |-> u, panicked |-> TRUE]

\* Mutant of UnitTick: the Parking arm ticks its timer and never parks.
UnitTick_parking_stalls(u, d) ==
    LET t == [u.timer EXCEPT !.elapsed = @ + d] IN
    CASE u.state = "ParkedPreparing" ->
           IF t.elapsed > t.duration THEN [u EXCEPT !.state = "ParkedReady", !.timer = NoTimer]
                                     ELSE [u EXCEPT !.timer = t]
      [] u.state \in {"Patrolling", "Returning"} ->
           IF t.elapsed > t.duration
           THEN [u EXCEPT !.state = "WaitingToPark", !.timer = NoTimer, !.combat_type = "-"]
           ELSE [u EXCEPT !.timer = t]
      [] u.state = "UnStoring" ->
           IF t.elapsed > t.duration THEN [u EXCEPT !.state = "ParkedUnready", !.timer = NoTimer]
                                     ELSE [u EXCEPT !.timer = t]
      [] u.state = "Storing" ->
           IF t.elapsed > t.duration THEN [u EXCEPT !.state = "InStorage", !.timer = NoTimer]
                                     ELSE [u EXCEPT !.timer = t]
      [] u.state = "Parking" -> [u EXCEPT !.timer.elapsed = IF @ < 20 THEN @ + d ELSE @]
      [] OTHER -> u

\* Unit::tick.
UnitTick(u, d) ==
    LET t == TimerTick(u.timer, d) IN
    CASE u.state = "ParkedPreparing" ->
           IF finished(t) THEN [u EXCEPT !.state = "ParkedReady", !.timer = NoTimer]
                          ELSE [u EXCEPT !.timer = t]
      [] u.state = "Patrolling" ->
           IF finished(t)
           THEN [u EXCEPT !.state = "WaitingToPark", !.timer = NoTimer, !.combat_type = NoType]
           ELSE [u EXCEPT !.timer = t]
      [] u.state = "Returning" ->
           IF finished(t)
           THEN [u EXCEPT !.state = "WaitingToPark", !.timer = NoTimer, !.combat_type = NoType]
           ELSE [u EXCEPT !.timer = t]
      [] u.state = "UnStoring" ->
           IF finished(t) THEN [u EXCEPT !.state = "ParkedUnready", !.timer = NoTimer]
                          ELSE [u EXCEPT !.timer = t]
      [] u.state = "Storing" ->
           IF finished(t) THEN [u EXCEPT !.state = "InStorage", !.timer = NoTimer]
                          ELSE [u EXCEPT !.timer = t]
      [] u.state = "Parking" ->
           IF finished(t) THEN [u EXCEPT !.state = "ParkedUnready", !.timer = NoTimer]
                          ELSE [u EXCEPT !.timer = t]
      [] OTHER -> u

\* Unit::progress_percent.
progress_percent(u) ==
    IF u.state = "Patrolling" THEN percent(u.timer) ELSE [n |-> 0, d |-> 1]

\* Mutant of return_to_base: the combat type is dropped on the way back.
return_to_base_forgets_type(u) ==
    IF u.state = "Patrolling"
    THEN [unit |-> [u EXCEPT !.state = "Returning", !.combat_type = "-"], panicked |-> FALSE]
    ELSE [unit |-> u, panicked |-> TRUE]

\* Mutant of return_to_base: the return leg starts a timer of its own.
return_to_base_restart(u) ==
    IF u.state = "Patrolling"
    THEN [unit |-> [u EXCEPT !.state = "Returning", !.timer = [duration |-> 30, elapsed |-> 0]],
          panicked |-> FALSE]
    ELSE [unit |-> u, panicked |-> TRUE]

\* Unit::return_to_base.
return_to_base(u) ==
    IF u.state = "Patrolling"
    THEN Ok([u EXCEPT !.state = "Returning"])
    ELSE Panic(u)

\* Unit::un_store; sc is the pool's strong count at the call.
un_store(u, sc) ==
    IF u.state = "InStorage"
    THEN IF try_take(sc) = 0
         THEN Panic(u)
         ELSE Ok([u EXCEPT !.state = "UnStoring",
                           !.timer = from_seconds(UnStoringSeconds),
                           !.token = try_take(sc)])
    ELSE Panic(u)

\* Unit::prepare.
prepare(u, combat_type) ==
    IF u.state = "ParkedUnready"
    THEN Ok([u EXCEPT !.state = "ParkedPreparing",
                      !.timer = from_seconds(PreparingSeconds),
                      !.combat_type = combat_type])
    ELSE Panic(u)

\* Mutant of take_off: the parking token is kept while patrolling.
take_off_keeps_token(u) ==
    IF u.state = "ParkedReady"
    THEN [unit |-> [u EXCEPT !.state = "Patrolling", !.timer = [duration |-> 30, elapsed |-> 0]],
          panicked |-> FALSE]
    ELSE [unit |-> u, panicked |-> TRUE]

\* Unit::take_off.
take_off(u) ==
    IF u.state = "ParkedReady"
    THEN Ok([u EXCEPT !.state = "Patrolling",
                      !.timer = from_seconds(PatrollingSeconds),
                      !.token = 0])
    ELSE Panic(u)

\* Mutant of move_into_storage: the parking token moves into Storing and is
\* dropped only with it.
move_into_storage_keeps_token(u) ==
    IF u.state \in {"ParkedUnready", "ParkedPreparing", "ParkedReady", "WaitingToPark"}
    THEN [unit |-> [u EXCEPT !.state = "Storing", !.timer = [duration |-> 10, elapsed |-> 0],
                             !.combat_type = "-"],
          panicked |-> FALSE]
    ELSE [unit |-> u, panicked |-> TRUE]

\* Mutant of move_into_storage: the match has no panicking arm.
move_into_storage_any(u) ==
    [unit |-> [u EXCEPT !.state = "Storing", !.timer = [duration |-> 10, elapsed |-> 0],
                        !.token = 0, !.combat_type = "-"],
     panicked |-> FALSE]

\* Unit::move_into_storage.
move_into_storage(u) ==
    IF u.state \in {"ParkedUnready", "ParkedPreparing", "ParkedReady", "WaitingToPark"}
    THEN Ok([u EXCEPT !.state = "Storing",
                      !.timer = from_seconds(StoringSeconds),
                      !.token = 0,
                      !.combat_type = NoType])
    ELSE Panic(u)

\* Mutant of park_after_returning: the unit is parked at once, without the
\* parking timer.
park_after_returning_at_once(u, sc) ==
    IF u.state = "WaitingToPark" /\ sc < MaxCount + 1
    THEN [unit |-> [u EXCEPT !.state = "ParkedUnready", !.token = 1], panicked |-> FALSE]
    ELSE [unit |-> u, panicked |-> TRUE]

\* Unit::park_after_returning; sc is the pool's strong count at the call.
park_after_returning(u, sc) ==
    IF u.state = "WaitingToPark"
    THEN IF try_take(sc) = 0
         THEN Panic(u)
         ELSE Ok([u EXCEPT !.state = "Parking",
                           !.timer = from_seconds(ParkingSeconds),
                           !.token = try_take(sc)])
    ELSE Panic(u)

\* Mutant of take_hit: the entity is despawned only below zero.
take_hit_below_zero(u) ==
    [u EXCEPT !.health = u.health - 15, !.alive = (u.health - 15 >= 0)]

\* Health::take_hit: the health afterwards; the entity is despawned when
\* it is <= 0.
take_hit(u) ==
    LET h == u.health - HitCost IN
    [u EXCEPT !.health = h, !.alive = (h > 0)]

\* UnitBundle of init_stuff: InStorage with Health::default().
InitUnit == MkUnit("InStorage", NoTimer, 0, NoType, HealthFull)

(* ------------------------------- Enemy -------------------------------- *)

\* Enemy::new.
NewEnemy(run_time, combat_type) ==
    [progress |-> from_seconds(run_time), combat_type |-> combat_type]

\* Enemy::tick.
EnemyTick(e, d) == [e EXCEPT !.progress = TimerTick(@, d)]

\* The enemies after each of the first n is ticked.
RECURSIVE TickEnemies(_, _, _)
TickEnemies(es, d, n) ==
    IF n = 0 THEN << >> ELSE Append(TickEnemies(es, d, n - 1), EnemyTick(es[n], d))

\* Enemy::remaining_percent.
remaining_percent(e) == percent_left(e.progress)

(* -------------------------- combat resolver --------------------------- *)

\* Mutant of Suitable: the filter does not compare combat types.
Suitable_any_type(u, e) == u.alive /\ u.state = "Patrolling"

\* Mutant of Meets: the unit must be strictly further than the enemy.
Meets_strictly(u, e) ==
    u.state = "Patrolling" /\
    u.timer.elapsed * e.progress.duration >
        (e.progress.duration - e.progress.elapsed) * u.timer.duration

\* The filter of units_meet_enemies: a spawned Patrolling unit of the
\* enemy's combat type.
Suitable(u, e) ==
    u.alive /\ u.state = "Patrolling" /\ u.combat_type = e.combat_type

\* The test of the inner loop.
Meets(u, e) == FracGE(progress_percent(u), remaining_percent(e))

\* The body of the inner loop for one unit: return_to_base, then take_hit.
HitUnit(u) == take_hit(return_to_base(u).unit)

\* The inner loop for one enemy: every suitable unit is visited, and each
\* one that meets the enemy is hit (the loop does not stop at a hit).
RECURSIVE MeetUnits(_, _, _)
MeetUnits(us, e, n) ==
    IF n = 0 THEN << >>
    ELSE Append(MeetUnits(us, e, n - 1),
                IF Suitable(us[n], e) /\ Meets(us[n], e) THEN HitUnit(us[n]) ELSE us[n])

MeetEnemy(us, e) == MeetUnits(us, e, NUnits)

\* Whether the inner loop despawns the enemy.
EnemyDespawned(us, e) == \E i \in UnitIds : Suitable(us[i], e) /\ Meets(us[i], e)

\* units_meet_enemies: the outer loop from the k-th enemy on, in iteration
\* order; kept are the enemies before it that were not despawned.  The
\* result holds the units afterwards and the enemies that are left.
RECURSIVE MeetFrom(_, _, _, _)
MeetFrom(us, es, k, kept) ==
    IF k > Len(es) THEN [units |-> us, enemies |-> kept]
    ELSE MeetFrom(MeetEnemy(us, es[k]), es, k + 1,
                  IF EnemyDespawned(us, es[k]) THEN kept ELSE Append(kept, es[k]))

units_meet_enemies(us, es) == MeetFrom(us, es, 1, << >>)

(* ---------------------------- EnemySpawner ---------------------------- *)

\* The initial mean, 30 s, in microseconds.
InitialMeanMicros == 30000000

\* Mutant of ShrinkMean: 3 % of the initial mean is taken off each time.
ShrinkMean_subtracts(m) == m - 900000

\* Duration::mul_f64(0.97) on a mean held in whole microseconds.
ShrinkMean(m) == (m \div 100) * 97 + ((m % 100) * 97) \div 100

\* Mutant of new_time_to_next_spawn: the sample is not clamped.
new_time_to_next_spawn_unclamped(sample) == sample

\* EnemySpawner::new_time_to_next_spawn: the sample, clamped to [1, 10].
new_time_to_next_spawn(sample) == Min(Max(sample, 1), 10)

\* EnemySpawner::default.
DefaultSpawner(sample) ==
    [time_to_next_spawn |-> from_seconds(new_time_to_next_spawn(sample)),
     mean               |-> InitialMeanMicros]

\* Whether EnemySpawner::tick spawns in a frame of d seconds.
Spawns(sp, d) == finished(TimerTick(sp.time_to_next_spawn, d))

\* EnemySpawner::tick: the spawner and the enemies afterwards.
SpawnerTick(sp, es, d, sample, combat_type) ==
    IF Spawns(sp, d)
    THEN [spawner |-> [time_to_next_spawn |-> from_seconds(new_time_to_next_spawn(sample)),
                       mean               |-> ShrinkMean(sp.mean)],
          enemies |-> Append(es, NewEnemy(EnemyRunSeconds, combat_type))]
    ELSE [spawner |-> [sp EXCEPT !.time_to_next_spawn = TimerTick(@, d)],
          enemies |-> es]

\* spawn_enemies.
spawn_enemies(sp, es, d, sample, combat_type) == SpawnerTick(sp, es, d, sample, combat_type)

(* ------------------------------ systems ------------------------------- *)

\* repair_tick: only a unit that is InStorage is repaired.
\* Mutant of RepairUnits: a unit on its way into storage is repaired too.
RECURSIVE RepairUnits_on_the_way(_, _, _)
RepairUnits_on_the_way(us, d, n) ==
    IF n = 0 THEN << >>
    ELSE Append(RepairUnits_on_the_way(us, d, n - 1),
                IF us[n].alive /\ us[n].state \in {"InStorage", "Storing"}
                THEN [us[n] EXCEPT !.health = IF @ + 4 * d < 60 THEN @ + 4 * d ELSE 60]
                ELSE us[n])

RECURSIVE RepairUnits(_, _, _)
RepairUnits(us, d, n) ==
    IF n = 0 THEN << >>
    ELSE Append(RepairUnits(us, d, n - 1),
                IF us[n].alive /\ us[n].state = "InStorage"
                THEN [us[n] EXCEPT !.health = HealthRepairTick(@, d)]
                ELSE us[n])

repair_tick(us, d) == RepairUnits(us, d, NUnits)

\* ticker's loop over the units: each of the first n that is spawned is
\* ticked.
RECURSIVE TickUnits(_, _, _)
TickUnits(us, d, n) ==
    IF n = 0 THEN << >>
    ELSE Append(TickUnits(us, d, n - 1),
                IF us[n].alive THEN UnitTick(us[n], d) ELSE us[n])

\* ticker: every unit and every enemy is ticked; a GameOver event is sent
\* for each enemy whose progress timer is finished after its tick (sent is
\* their number), and game over is signalled when there is one.
\* Mutant of ticker: an enemy's timer is tested before it is ticked.
ticker_tests_before_tick(us, es, d) ==
    [units     |-> TickUnits(us, d, NUnits),
     enemies   |-> TickEnemies(es, d, Len(es)),
     sent      |-> Cardinality({k \in 1..Len(es) : es[k].progress.elapsed > es[k].progress.duration}),
     game_over |-> \E k \in 1..Len(es) : es[k].progress.elapsed > es[k].progress.duration]

ticker(us, es, d) ==
    LET es2 == TickEnemies(es, d, Len(es)) IN
    [units     |-> TickUnits(us, d, NUnits),
     enemies   |-> es2,
     sent      |-> Cardinality({k \in 1..Len(es2) : finished(es2[k].progress)}),
     game_over |-> \E k \in 1..Len(es2) : finished(es2[k].progress)]

\* The game state after ticker's signal.
SignalGameOver(gs, game_over) == IF game_over THEN "GameOver" ELSE gs

(* -------------------------------- gui --------------------------------- *)

NoClick == [button |-> "none", unit |-> 0, combat_type |-> NoType]

\* A click of one frame: the button, the unit whose row holds it and, for
\* a "Prepare for ..." button, the combat type on it.
Click(b, i, c) == [button |-> b, unit |-> i, combat_type |-> c]

\* Mutant of Offered: the token-requiring buttons are enabled whatever the
\* pool holds.
Offered_ignores_pool(u, sc, b) ==
    /\ u.alive
    /\ \/ b = "Bring out of storage" /\ u.state = "InStorage"
       \/ b = "Prepare" /\ u.state = "ParkedUnready"
       \/ b = "Move into storage" /\ u.state \in {"ParkedUnready", "WaitingToPark"}
       \/ b = "Take off!" /\ u.state = "ParkedReady"
       \/ b = "Park" /\ u.state = "WaitingToPark"

\* Whether gui draws the button, enabled, in the row of unit u.
Offered(u, sc, b) ==
    /\ u.alive
    /\ \/ b = "Bring out of storage" /\ u.state = "InStorage" /\ can_take(sc)
       \/ b = "Prepare" /\ u.state = "ParkedUnready"
       \/ b = "Move into storage" /\ u.state \in {"ParkedUnready", "WaitingToPark"}
       \/ b = "Take off!" /\ u.state = "ParkedReady"
       \/ b = "Park" /\ u.state = "WaitingToPark" /\ can_take(sc)

\* Mutant of OnClick: "Take off!" leaves the unit its parking space.
OnClick_take_off_keeps_space(u, sc, click) ==
    CASE click.button = "Bring out of storage" -> un_store(u, sc)
      [] click.button = "Prepare"              -> prepare(u, click.combat_type)
      [] click.button = "Move into storage"    -> move_into_storage(u)
      [] click.button = "Take off!"            ->
            [unit |-> [u EXCEPT !.state = "Patrolling",
                                !.timer = [duration |-> 30, elapsed |-> 0]],
             panicked |-> FALSE]
      [] click.button = "Park"                 -> park_after_returning(u, sc)
      [] OTHER                                 -> [unit |-> u, panicked |-> FALSE]

\* The unit method the clicked button calls.
OnClick(u, sc, click) ==
    CASE click.button = "Bring out of storage" -> un_store(u, sc)
      [] click.button = "Prepare"              -> prepare(u, click.combat_type)
      [] click.button = "Move into storage"    -> move_into_storage(u)
      [] click.button = "Take off!"            -> take_off(u)
      [] click.button = "Park"                 -> park_after_returning(u, sc)
      [] OTHER                                 -> Ok(u)

\* gui: the units after the frame's click, and whether a method panicked.
gui(us, held, click) ==
    IF click.button # "none" /\ Offered(us[click.unit], strong_count(us, held), click.button)
    THEN LET r == OnClick(us[click.unit], strong_count(us, held), click)
         IN  [units    |-> [us EXCEPT ![click.unit] = r.unit],
              panicked |-> r.panicked]
    ELSE [units |-> us, panicked |-> FALSE]

(* ------------------------------- state -------------------------------- *)

VARIABLES
    units,       \* MyGame.units: the unit records, by unit id
    enemies,     \* MyGame.enemies: sequence of enemy records
    spawner,     \* MyGame.enemy_spawner
    game_state,  \* MyGame.game_state: "Running" or "GameOver"
    delta,       \* MyGame.time.delta_since_previous, in seconds
    panicked,    \* whether a call has panicked (the program is then over)
    loose,       \* pool tokens held by the harness, outside any unit
    call,        \* the harness's last call: what was called, on what
    flown,       \* per unit: seconds ticked since its last take_off
    given,       \* the units and enemies the last resolver pass was given
    ev_game_over \* Events<GameOver>: the events sent in the last frame

vars == <<units, enemies, spawner, game_state, delta, panicked, loose, call, flown, given,
          ev_game_over>>

\* init_stuff: the first n units.
RECURSIVE InitUnits(_)
InitUnits(n) == IF n = 0 THEN << >> ELSE Append(InitUnits(n - 1), InitUnit)

RECURSIVE NoneFlown(_)
NoneFlown(n) == IF n = 0 THEN << >> ELSE Append(NoneFlown(n - 1), 0)

NoCall == [op |-> "none", unit |-> 0, before |-> InitUnit, used |-> 0, got |-> 0]

NothingGiven == [units |-> << >>, enemies |-> << >>]

\* MyGame::default, then init_stuff (wasm_startup::start).
Init ==
    /\ units = InitUnits(NUnits)
    /\ enemies = << >>
    /\ \E sample \in Samples : spawner = DefaultSpawner(sample)
    /\ game_state = "Running"
    /\ delta = 0
    /\ panicked = FALSE
    /\ loose = 0
    /\ call = NoCall
    /\ flown = NoneFlown(NUnits)
    /\ given = NothingGiven
    /\ ev_game_over = 0

(* ---------------------------- frame driver ---------------------------- *)

\* The mean after k spawn events.
RECURSIVE MeanAfter(_)
MeanAfter(k) == IF k = 0 THEN InitialMeanMicros ELSE ShrinkMean(MeanAfter(k - 1))

\* Mutant of RunsSystems: update calls the systems in every frame.
RunsSystemsAlways(gs) == TRUE

\* The guard of update's system calls.
RunsSystems(gs) == gs = "Running"

\* The model's bounds on a frame whose resolver leaves the enemies es: the
\* spawner may add an enemy only below MaxEnemies live enemies and
\* MaxSpawns spawn events, or in the frame that signals game over, which
\* is the last frame the spawner runs in.
WithinBounds(es, sp, d, game_over) ==
    (Spawns(sp, d) /\ ~game_over) =>
        sp.mean > MeanAfter(MaxSpawns) /\ Len(es) < MaxEnemies

\* The clicks gui can receive in a frame that draws the units us: none, or
\* one of the buttons it draws enabled.
Buttons == {"Bring out of storage", "Prepare", "Move into storage", "Take off!", "Park"}

Clicks(us, held) ==
    {NoClick} \cup
    {Click(b, i, t) : <<b, i, t>> \in
        {x \in Buttons \X UnitIds \X (TypesUsed \cup {NoType}) :
            /\ Offered(us[x[2]], strong_count(us, held), x[1])
            /\ (x[1] = "Prepare") = (x[3] # NoType)}}

\* The end of update: gui with the frame's click on the units us, then
\* Time::tick, which reads the clock for the next frame's delta.
GuiAndClock(us) ==
    /\ \E click \in Clicks(us, loose) :
       \E g \in {gui(us, loose, click)} :
          /\ units' = g.units
          /\ panicked' = g.panicked
    /\ delta' \in Deltas

\* The random draws a frame makes: none unless the spawner spawns in it.
FrameSamples == IF Spawns(spawner, delta) THEN Samples ELSE {0}
FrameTypes == IF Spawns(spawner, delta) THEN TypesUsed ELSE {NoType}

\* Mutant of UpdateRunning: game over is signalled for the finished
\* enemies that the resolver has left.
UpdateRunning_tests_after_resolver ==
    /\ ~panicked
    /\ game_state = "Running"
    /\ \E sample \in FrameSamples, combat_type \in FrameTypes :
       \E t \in {ticker(units, enemies, delta)} :
       \E m \in {units_meet_enemies(t.units, t.enemies)} :
       \E s \in {spawn_enemies(spawner, m.enemies, delta, sample, combat_type)} :
       \E r \in {repair_tick(m.units, delta)} :
       \E over \in {{k \in 1..Len(m.enemies) :
                        m.enemies[k].progress.elapsed > m.enemies[k].progress.duration}} :
          /\ WithinBounds(m.enemies, spawner, delta, t.game_over)
          /\ enemies' = s.enemies
          /\ spawner' = s.spawner
          /\ game_state' = IF over # {} THEN "GameOver" ELSE game_state
          /\ ev_game_over' = Cardinality(over)
          /\ GuiAndClock(r)
    /\ UNCHANGED <<loose, call, flown, given>>

\* Mutant of UpdateRunning: the spawner runs first, so that an enemy is
\* ticked and matched in the frame that spawns it.
UpdateRunning_spawns_first ==
    /\ ~panicked
    /\ game_state = "Running"
    /\ \E sample \in FrameSamples, combat_type \in FrameTypes :
       \E s \in {spawn_enemies(spawner, enemies, delta, sample, combat_type)} :
       \E t \in {ticker(units, s.enemies, delta)} :
       \E m \in {units_meet_enemies(t.units, t.enemies)} :
       \E r \in {repair_tick(m.units, delta)} :
          /\ WithinBounds(enemies, spawner, delta, t.game_over)
          /\ enemies' = m.enemies
          /\ spawner' = s.spawner
          /\ game_state' = SignalGameOver(game_state, t.game_over)
          /\ ev_game_over' = t.sent
          /\ GuiAndClock(r)
    /\ UNCHANGED <<loose, call, flown, given>>

\* MyGame::update while Running: the four systems in its order, then gui
\* and the clock.  The frame's random draws are sample and combat_type.
UpdateRunning ==
    /\ ~panicked
    /\ RunsSystems(game_state)
    /\ \E sample \in FrameSamples, combat_type \in FrameTypes :
       \E t \in {ticker(units, enemies, delta)} :
       \E m \in {units_meet_enemies(t.units, t.enemies)} :
       \E s \in {spawn_enemies(spawner, m.enemies, delta, sample, combat_type)} :
       \E r \in {repair_tick(m.units, delta)} :
          /\ WithinBounds(m.enemies, spawner, delta, t.game_over)
          /\ enemies' = s.enemies
          /\ spawner' = s.spawner
          /\ game_state' = SignalGameOver(game_state, t.game_over)
          /\ ev_game_over' = t.sent
          /\ GuiAndClock(r)
    /\ UNCHANGED <<loose, call, flown, given>>

\* MyGame::update once the game is over: gui and the clock only.
UpdateGameOver ==
    /\ ~panicked
    /\ ~RunsSystems(game_state)
    /\ GuiAndClock(units)
    /\ ev_game_over' = 0
    /\ UNCHANGED <<enemies, spawner, game_state, loose, call, flown, given>>

Next == UpdateRunning \/ UpdateGameOver

Spec == Init /\ [][Next]_vars

(* --------------------------- method harness --------------------------- *)
(* The unit methods, Unit::tick and the pool called directly, in any       *)
(* order and on a unit in any state, as a test of the API would: a call    *)
(* that panics ends the run.                                               *)

Methods == {"un_store", "prepare", "take_off", "move_into_storage",
            "park_after_returning", "return_to_base"}

\* The method op called on unit u, with combat type c where it takes one.
CallMethod(op, u, sc, c) ==
    CASE op = "un_store"             -> un_store(u, sc)
      [] op = "prepare"              -> prepare(u, c)
      [] op = "take_off"             -> take_off(u)
      [] op = "move_into_storage"    -> move_into_storage(u)
      [] op = "park_after_returning" -> park_after_returning(u, sc)
      [] op = "return_to_base"       -> return_to_base(u)

\* The harness state: units and pool as constructed, nothing else in play.
InitApi ==
    /\ units = InitUnits(NUnits)
    /\ enemies = << >>
    /\ spawner = DefaultSpawner(0)
    /\ game_state = "Running"
    /\ delta = 0
    /\ panicked = FALSE
    /\ loose = 0
    /\ call = NoCall
    /\ flown = NoneFlown(NUnits)
    /\ given = NothingGiven
    /\ ev_game_over = 0

\* One method call on unit i.
ApiCall(op) ==
    /\ ~panicked
    /\ \E i \in UnitIds, c \in (IF op = "prepare" THEN TypesUsed ELSE {NoType}) :
       \E r \in {CallMethod(op, units[i], strong_count(units, loose), c)} :
          /\ units' = [units EXCEPT ![i] = r.unit]
          /\ panicked' = r.panicked
          /\ call' = [op |-> op, unit |-> i, before |-> units[i],
                      used |-> slots_used(strong_count(units, loose)), got |-> 0]
          /\ flown' = IF r.panicked \/ op = "return_to_base" THEN flown
                      ELSE [flown EXCEPT ![i] = 0]
    /\ UNCHANGED <<enemies, spawner, game_state, delta, loose, given, ev_game_over>>

\* The flight times after a tick of d seconds.
RECURSIVE FlownAfter(_, _, _, _)
FlownAfter(us, fl, d, n) ==
    IF n = 0 THEN << >>
    ELSE Append(FlownAfter(us, fl, d, n - 1),
                IF us[n].state \in {"Patrolling", "Returning"} THEN fl[n] + d ELSE fl[n])

\* Unit::tick of every unit, with one delta, as ticker calls it.
ApiTick ==
    /\ ~panicked
    /\ \E d \in Deltas :
          /\ units' = TickUnits(units, d, NUnits)
          /\ flown' = FlownAfter(units, flown, d, NUnits)
    /\ call' = [NoCall EXCEPT !.op = "tick",
                              !.used = slots_used(strong_count(units, loose))]
    /\ UNCHANGED <<enemies, spawner, game_state, delta, panicked, loose, given, ev_game_over>>

\* TokenPool::try_take called directly; the harness keeps what it gets.
ApiTryTake ==
    /\ ~panicked
    /\ loose' = loose + try_take(strong_count(units, loose))
    /\ call' = [NoCall EXCEPT !.op = "try_take",
                              !.used = slots_used(strong_count(units, loose)),
                              !.got = try_take(strong_count(units, loose))]
    /\ UNCHANGED <<units, enemies, spawner, game_state, delta, panicked, flown, given, ev_game_over>>

\* The harness drops one of its tokens.
ApiRelease ==
    /\ ~panicked
    /\ loose > 0
    /\ loose' = loose - 1
    /\ call' = [NoCall EXCEPT !.op = "release",
                              !.used = slots_used(strong_count(units, loose))]
    /\ UNCHANGED <<units, enemies, spawner, game_state, delta, panicked, flown, given, ev_game_over>>

NextApi ==
    \/ ApiCall("un_store")
    \/ ApiCall("prepare")
    \/ ApiCall("take_off")
    \/ ApiCall("move_into_storage")
    \/ ApiCall("park_after_returning")
    \/ ApiCall("return_to_base")
    \/ ApiTick
    \/ ApiTryTake
    \/ ApiRelease

SpecApi == InitApi /\ [][NextApi]_vars

(* -------------------------- resolver harness -------------------------- *)
(* units_meet_enemies applied to units and enemies drawn from small sets   *)
(* of records the game can hold, as a test of the system alone would.      *)

\* Seconds flown by the Patrolling units drawn (progress 0.3 and 0.5) and
\* seconds run by the enemies drawn (remaining 0.5, 0.4 and 0.2).
PatrolElapsed == {9, 15}
EnemyElapsed == {15, 18, 24}

\* The unit records drawn: Patrolling ones of either type, at full health
\* or with one hit left, and units in states the resolver passes over.
ResolverUnits ==
    {MkUnit("Patrolling", [from_seconds(PatrollingSeconds) EXCEPT !.elapsed = el], 0, c, h) :
        el \in PatrolElapsed, c \in TypesUsed, h \in {HealthFull, HitCost}}
    \cup {MkUnit("Returning", [from_seconds(PatrollingSeconds) EXCEPT !.elapsed = 15],
                 0, "A", HealthFull - HitCost),
          MkUnit("ParkedReady", NoTimer, 1, "A", HealthFull),
          MkUnit("WaitingToPark", NoTimer, 0, "A", HealthFull),
          MkUnit("InStorage", NoTimer, 0, NoType, HealthFull - HitCost)}

\* The enemy records drawn.
ResolverEnemies ==
    {EnemyTick(NewEnemy(EnemyRunSeconds, c), el) : c \in TypesUsed, el \in EnemyElapsed}

\* The unit collections of n units.
RECURSIVE UnitTuples(_)
UnitTuples(n) ==
    IF n = 0 THEN {<< >>}
    ELSE {Append(t, u) : t \in UnitTuples(n - 1), u \in ResolverUnits}

\* The enemy collections of n enemies, each a distinct entity.
RECURSIVE EnemyTuples(_)
EnemyTuples(n) ==
    IF n = 0 THEN {<< >>}
    ELSE {Append(t, e) : <<t, e>> \in
             {x \in EnemyTuples(n - 1) \X ResolverEnemies :
                 \A k \in 1..(n - 1) : x[1][k] # x[2]}}

InitResolver ==
    /\ units \in {us \in UnitTuples(NUnits) : slots_used(strong_count(us, 0)) <= MaxCount}
    /\ \E n \in 0..MaxEnemies : enemies \in EnemyTuples(n)
    /\ spawner = DefaultSpawner(0)
    /\ game_state = "Running"
    /\ delta = 0
    /\ panicked = FALSE
    /\ loose = 0
    /\ call = NoCall
    /\ flown = NoneFlown(NUnits)
    /\ given = NothingGiven
    /\ ev_game_over = 0

\* One pass of units_meet_enemies.
Resolve ==
    /\ \E m \in {units_meet_enemies(units, enemies)} :
          /\ units' = m.units
          /\ enemies' = m.enemies
    /\ given' = [units |-> units, enemies |-> enemies]
    /\ call' = [NoCall EXCEPT !.op = "resolve"]
    /\ UNCHANGED <<spawner, game_state, delta, panicked, loose, flown, ev_game_over>>

NextResolver == Resolve

SpecResolver == InitResolver /\ [][NextResolver]_vars

(* --------------------------- spawner harness -------------------------- *)
(* EnemySpawner alone, ticked frame after frame with any delta and any     *)
(* sample, for as many spawn events as MaxRampSpawns allows.  The enemies  *)
(* it spawns are kept as spawned; all are given the one combat type, which *)
(* plays no part in the spawner.                                           *)

InitSpawner ==
    /\ units = InitUnits(NUnits)
    /\ enemies = << >>
    /\ \E sample \in Samples : spawner = DefaultSpawner(sample)
    /\ game_state = "Running"
    /\ delta = 0
    /\ panicked = FALSE
    /\ loose = 0
    /\ call = NoCall
    /\ flown = NoneFlown(NUnits)
    /\ given = NothingGiven
    /\ ev_game_over = 0

\* One frame's spawn_enemies, after the clock has reported delta d.
SpawnerStep ==
    /\ \E d \in Deltas :
       \E sample \in (IF Spawns(spawner, d) THEN Samples ELSE {0}) :
       \E s \in {spawn_enemies(spawner, enemies, d, sample, "A")} :
          /\ Spawns(spawner, d) => Len(enemies) < MaxRampSpawns
          /\ delta' = d
          /\ spawner' = s.spawner
          /\ enemies' = s.enemies
    /\ call' = [NoCall EXCEPT !.op = "spawn_enemies"]
    /\ UNCHANGED <<units, game_state, panicked, loose, flown, given, ev_game_over>>

NextSpawner == SpawnerStep

SpecSpawner == InitSpawner /\ [][NextSpawner]_vars

(* --------------------------- health harness --------------------------- *)
(* Health::take_hit and repair_tick applied in any order to units at full  *)
(* health, each in one of the lifecycle states drawn.                      *)

\* The unit records drawn: full health, in storage, on the way in or out,
\* parked and on patrol.
HealthUnits ==
    {MkUnit("InStorage", NoTimer, 0, NoType, HealthFull),
     MkUnit("Storing", from_seconds(StoringSeconds), 0, NoType, HealthFull),
     MkUnit("UnStoring", from_seconds(UnStoringSeconds), 1, NoType, HealthFull),
     MkUnit("ParkedReady", NoTimer, 1, "A", HealthFull),
     MkUnit("Patrolling", from_seconds(PatrollingSeconds), 0, "A", HealthFull)}

RECURSIVE HealthTuples(_)
HealthTuples(n) ==
    IF n = 0 THEN {<< >>}
    ELSE {Append(t, u) : t \in HealthTuples(n - 1), u \in HealthUnits}

InitHealth ==
    /\ units \in {us \in HealthTuples(NUnits) : slots_used(strong_count(us, 0)) <= MaxCount}
    /\ enemies = << >>
    /\ spawner = DefaultSpawner(0)
    /\ game_state = "Running"
    /\ delta = 0
    /\ panicked = FALSE
    /\ loose = 0
    /\ call = NoCall
    /\ flown = NoneFlown(NUnits)
    /\ given = NothingGiven
    /\ ev_game_over = 0

\* Health::take_hit on a unit that is in play.
HealthHit ==
    /\ \E i \in UnitIds :
          /\ units[i].alive
          /\ units' = [units EXCEPT ![i] = take_hit(@)]
          /\ call' = [NoCall EXCEPT !.op = "take_hit", !.unit = i]
    /\ given' = [units |-> units, enemies |-> enemies]
    /\ UNCHANGED <<enemies, spawner, game_state, delta, panicked, loose, flown, ev_game_over>>

\* repair_tick in a frame whose delta is d.
HealthRepair ==
    /\ \E d \in Deltas :
          /\ delta' = d
          /\ units' = repair_tick(units, d)
    /\ call' = [NoCall EXCEPT !.op = "repair_tick"]
    /\ given' = [units |-> units, enemies |-> enemies]
    /\ UNCHANGED <<enemies, spawner, game_state, panicked, loose, flown, ev_game_over>>

NextHealth == HealthHit \/ HealthRepair

SpecHealth == InitHealth /\ [][NextHealth]_vars

(* ---------------------------- timer harness --------------------------- *)
(* Two timers made alike, held as the progress timers of two enemies.  The *)
(* first is ticked delta by delta; the second is ticked now and then, each *)
(* time with the sum of the deltas the first has had since.  After each    *)
(* tick the harness asks the ticked timer whether it is finished.          *)

\* Durations of the timers drawn, and the deltas they are ticked with.
TimerDurations == {5, 10, 30}
TimerDeltas == {0, 5, 10}

\* 1 for true, 0 for false.
Flag(b) == IF b THEN 1 ELSE 0

InitTimer ==
    /\ units = InitUnits(NUnits)
    /\ \E dur \in TimerDurations : enemies = <<NewEnemy(dur, "A"), NewEnemy(dur, "A")>>
    /\ spawner = DefaultSpawner(0)
    /\ game_state = "Running"
    /\ delta = 0
    /\ panicked = FALSE
    /\ loose = 0
    /\ call = NoCall
    /\ flown = NoneFlown(NUnits)
    /\ given = NothingGiven
    /\ ev_game_over = 0

\* tick(d) on the first timer, then finished(); delta is the sum the
\* second timer has still to be ticked with.
TimerTickEach ==
    /\ \E d \in TimerDeltas :
       \E e \in {EnemyTick(enemies[1], d)} :
          /\ e.progress.elapsed <= MaxTimerElapsed
          /\ enemies' = [enemies EXCEPT ![1] = e]
          /\ delta' = delta + d
          /\ call' = [NoCall EXCEPT !.op = "timer_tick", !.unit = 1,
                                    !.used = d, !.got = Flag(finished(e.progress))]
    /\ given' = [units |-> units, enemies |-> enemies]
    /\ UNCHANGED <<units, spawner, game_state, panicked, loose, flown, ev_game_over>>

\* One tick of the second timer with the sum, then finished().
TimerTickSum ==
    /\ \E e \in {EnemyTick(enemies[2], delta)} :
          /\ enemies' = [enemies EXCEPT ![2] = e]
          /\ call' = [NoCall EXCEPT !.op = "timer_tick", !.unit = 2,
                                    !.used = delta, !.got = Flag(finished(e.progress))]
    /\ delta' = 0
    /\ given' = [units |-> units, enemies |-> enemies]
    /\ UNCHANGED <<units, spawner, game_state, panicked, loose, flown, ev_game_over>>

NextTimer == TimerTickEach \/ TimerTickSum

SpecTimer == InitTimer /\ [][NextTimer]_vars

(* --------------------------- ticking harness -------------------------- *)
(* The frames of a player who clicks nothing, over a stretch in which no   *)
(* enemy is spawned: ticker, units_meet_enemies and repair_tick while the  *)
(* game is Running, and nothing but the clock once it is over.  Frames     *)
(* keep arriving, each with a positive delta.                              *)

\* The unit records drawn: one in each lifecycle state, timers as the
\* transition into the state leaves them or part run, and a Patrolling
\* unit with one hit left.
TickingUnits ==
    {MkUnit("InStorage", NoTimer, 0, NoType, HealthFull),
     MkUnit("UnStoring", from_seconds(UnStoringSeconds), 1, NoType, HealthFull),
     MkUnit("ParkedUnready", NoTimer, 1, NoType, HealthFull),
     MkUnit("ParkedPreparing", from_seconds(PreparingSeconds), 1, "A", HealthFull),
     MkUnit("ParkedReady", NoTimer, 1, "A", HealthFull),
     MkUnit("Patrolling", from_seconds(PatrollingSeconds), 0, "A", HealthFull),
     MkUnit("Patrolling", TimerTick(from_seconds(PatrollingSeconds), 5), 0, "A", HitCost),
     MkUnit("Returning", TimerTick(from_seconds(PatrollingSeconds), 15), 0, "A",
            HealthFull - HitCost),
     MkUnit("WaitingToPark", NoTimer, 0, NoType, HealthFull),
     MkUnit("Storing", from_seconds(StoringSeconds), 0, NoType, HealthFull - HitCost),
     MkUnit("Parking", from_seconds(ParkingSeconds), 1, NoType, HealthFull)}

RECURSIVE TickingTuples(_)
TickingTuples(n) ==
    IF n = 0 THEN {<< >>}
    ELSE {Append(t, u) : t \in TickingTuples(n - 1), u \in TickingUnits}

\* The enemies drawn: none, or one that is on its way.
TickingEnemies ==
    {<< >>} \cup {<<EnemyTick(NewEnemy(EnemyRunSeconds, c), el)>> : c \in TypesUsed, el \in {0, 20}}

\* Whether the last resolver pass can have left the units us with the
\* enemies es: no unit has caught up with an enemy of its type.
NothingToMeet(us, es) ==
    \A i \in UnitIds : \A k \in 1..Len(es) : ~(Suitable(us[i], es[k]) /\ Meets(us[i], es[k]))

InitTicking ==
    /\ units \in {us \in TickingTuples(NUnits) : slots_used(strong_count(us, 0)) <= MaxCount}
    /\ enemies \in {es \in TickingEnemies : NothingToMeet(units, es)}
    /\ spawner = DefaultSpawner(0)
    /\ game_state = "Running"
    /\ delta \in Deltas
    /\ panicked = FALSE
    /\ loose = 0
    /\ call = NoCall
    /\ flown = NoneFlown(NUnits)
    /\ given = [units |-> units, enemies |-> enemies]
    /\ ev_game_over = 0

\* update while Running, without a spawn and without a click.
TickingFrame ==
    /\ RunsSystems(game_state)
    /\ \E t \in {ticker(units, enemies, delta)} :
       \E m \in {units_meet_enemies(t.units, t.enemies)} :
          /\ units' = repair_tick(m.units, delta)
          /\ enemies' = m.enemies
          /\ game_state' = SignalGameOver(game_state, t.game_over)
          /\ ev_game_over' = t.sent
    /\ delta' \in Deltas
    /\ call' = [NoCall EXCEPT !.op = "frame"]
    /\ UNCHANGED <<spawner, panicked, loose, flown, given>>

\* update once the game is over, without a click: the clock only.
TickingFrameOver ==
    /\ ~RunsSystems(game_state)
    /\ delta' \in Deltas
    /\ ev_game_over' = 0
    /\ call' = [NoCall EXCEPT !.op = "frame"]
    /\ UNCHANGED <<units, enemies, spawner, game_state, panicked, loose, flown, given>>

NextTicking == TickingFrame \/ TickingFrameOver

\* request_repaint at the head of update: a frame always follows.
SpecTicking ==
    InitTicking /\ [][NextTicking]_vars /\ WF_vars(TickingFrame) /\ WF_vars(TickingFrameOver)

(* --------------------------- mid-game harness ------------------------- *)
(* The frame driver started in the middle of a game: units in any of the   *)
(* lifecycle states, one of them worn down to its last hit, an enemy on    *)
(* its way, and the spawner's mean as MaxSpawns - 1 spawn events leave it. *)

\* The unit collections drawn: of the ticking harness's, those whose
\* units are in storage, hold a parking space, wait for one, or are on
\* patrol with one hit left.
MidGameTuples ==
    {us \in TickingTuples(NUnits) :
        /\ slots_used(strong_count(us, 0)) <= MaxCount
        /\ \A i \in UnitIds :
              /\ us[i].state \notin {"Storing", "Returning"}
              /\ us[i].state = "Patrolling" => us[i].health = HitCost}

\* The enemies drawn: none, or one that is two thirds of its way.
MidGameEnemies == {es \in TickingEnemies : \A k \in 1..Len(es) : es[k].progress.elapsed > 0}

InitMidGame ==
    /\ units \in MidGameTuples
    /\ enemies \in {es \in MidGameEnemies : NothingToMeet(units, es)}
    /\ spawner = [DefaultSpawner(14) EXCEPT !.mean = MeanAfter(MaxSpawns - 1)]
    /\ game_state = "Running"
    /\ delta \in Deltas
    /\ panicked = FALSE
    /\ loose = 0
    /\ call = NoCall
    /\ flown = NoneFlown(NUnits)
    /\ given = [units |-> units, enemies |-> enemies]
    /\ ev_game_over = 0

SpecMidGame == InitMidGame /\ [][Next]_vars

(* ------------------------------- claims ------------------------------- *)

\* The states whose variant holds a Token<ParkingSpace>.
Holding == {"UnStoring", "ParkedUnready", "ParkedPreparing", "ParkedReady", "Parking"}

\* TokenPool::slots_used of the pool as it is.
SlotsUsed == slots_used(strong_count(units, loose))

\* C1: after any sequence of unit ticks, unit method calls and direct pool
\* calls, the number of outstanding parking-space tokens never exceeds the
\* pool's max_count.
C1_SlotsWithinMax == SlotsUsed <= MaxCount

\* C1 witness: the pool is full and a unit has just asked it for a token.
C1_Witness ==
    /\ SlotsUsed = MaxCount
    /\ call.op \in {"un_store", "park_after_returning", "try_take"}
    /\ call.used = MaxCount

\* C2: try_take returns a token exactly when fewer than max_count tokens are
\* outstanding and None otherwise: None at capacity, a token again once one
\* has been released.
C2_TryTakeExactlyBelowMax ==
    call.op = "try_take" =>
        /\ (call.got = 1) = (call.used < MaxCount)
        /\ (call.got = 0) = (call.used = MaxCount)
        /\ SlotsUsed = call.used + call.got

\* C2 witness: try_take has just returned None from a pool at capacity.
C2_Witness == call.op = "try_take" /\ call.got = 0 /\ SlotsUsed = MaxCount

\* C3: every unit holds at most one token, and holds one exactly when it is
\* in a token-holding state, so slots_used is the number of units in those
\* states (plus the tokens taken from the pool directly); a tick and
\* prepare leave slots_used as it was.
C3_TokenPerHoldingUnit ==
    /\ \A i \in UnitIds :
          /\ units[i].token \in {0, 1}
          /\ (units[i].token = 1) = (units[i].state \in Holding)
    /\ SlotsUsed = Cardinality({i \in UnitIds : units[i].state \in Holding}) + loose
    /\ call.op = "tick" => SlotsUsed = call.used
    /\ call.op = "prepare" => SlotsUsed = call.used

\* C3 witness: a tick has just moved a unit between token-holding states
\* while another unit holds no token.
C3_Witness ==
    /\ call.op = "tick"
    /\ \E i, j \in UnitIds :
          /\ units[i].state = "ParkedReady"
          /\ units[j].state \in {"Patrolling", "WaitingToPark"}

\* The (state, method) pairs the transition table lists as valid.
ValidPairs ==
    {<<"InStorage", "un_store">>,
     <<"ParkedUnready", "prepare">>,
     <<"ParkedUnready", "move_into_storage">>,
     <<"ParkedPreparing", "move_into_storage">>,
     <<"ParkedReady", "move_into_storage">>,
     <<"WaitingToPark", "move_into_storage">>,
     <<"ParkedReady", "take_off">>,
     <<"Patrolling", "return_to_base">>,
     <<"WaitingToPark", "park_after_returning">>}

\* C4: a method called on a unit whose state the table does not pair with
\* it panics and leaves the unit as it was.
C4_InvalidCallPanics ==
    (call.op \in Methods /\ <<call.before.state, call.op>> \notin ValidPairs) =>
        /\ panicked
        /\ units[call.unit] = call.before
        /\ SlotsUsed = call.used

\* C4 witness: return_to_base has been called on a unit that is not
\* Patrolling.
C4_Witness ==
    /\ call.op = "return_to_base"
    /\ call.before.state = "ParkedReady"
    /\ panicked

\* C5: take_off turns a ParkedReady unit into a Patrolling one with a fresh
\* 30 s timer and the same combat type; ticked without being hit, it stays
\* Patrolling while at most 30 s have been ticked since take-off and is
\* WaitingToPark as soon as more have.
C5_TakeOffPatrolsThirtySeconds ==
    [][\A i \in UnitIds :
          /\ (call'.op = "take_off" /\ call'.unit = i /\ ~panicked') =>
                /\ units[i].state = "ParkedReady"
                /\ units'[i].state = "Patrolling"
                /\ units'[i].timer = [duration |-> 30, elapsed |-> 0]
                /\ units'[i].combat_type = units[i].combat_type
          /\ (call'.op = "tick" /\ units[i].state = "Patrolling") =>
                /\ units'[i].state = IF flown'[i] > 30 THEN "WaitingToPark" ELSE "Patrolling"
                /\ units'[i].state = "Patrolling" =>
                      /\ units'[i].timer = [duration |-> 30, elapsed |-> flown'[i]]
                      /\ units'[i].combat_type = units[i].combat_type
      ]_vars

\* C5 witness: a unit that took off has been ticked for exactly 30 s and is
\* still Patrolling, with the combat type it was prepared for.
C5_Witness ==
    /\ call.op = "tick"
    /\ \E i \in UnitIds :
          /\ units[i].state = "Patrolling"
          /\ units[i].combat_type = "B"
          /\ flown[i] = 30

\* C6: return_to_base turns a Patrolling unit into a Returning one with the
\* same timer (duration and elapsed) and combat type, so that whenever it
\* was hit it is WaitingToPark as soon as more than the patrol's 30 s have
\* been ticked since take-off, and Returning until then.
C6_ReturnKeepsPatrolTimer ==
    [][\A i \in UnitIds :
          /\ (call'.op = "return_to_base" /\ call'.unit = i /\ ~panicked') =>
                /\ units[i].state = "Patrolling"
                /\ units'[i].state = "Returning"
                /\ units'[i].timer = units[i].timer
                /\ units'[i].combat_type = units[i].combat_type
          /\ (call'.op = "tick" /\ units[i].state = "Returning") =>
                /\ units'[i].state = IF flown'[i] > 30 THEN "WaitingToPark" ELSE "Returning"
                /\ units'[i].state = "Returning" =>
                      units'[i].timer = [duration |-> 30, elapsed |-> flown'[i]]
      ]_vars

\* C6 witness: a unit hit part way through its patrol is Returning with
\* the patrol's timer.
C6_Witness ==
    /\ call.op = "return_to_base"
    /\ ~panicked
    /\ units[call.unit].state = "Returning"
    /\ units[call.unit].timer = [duration |-> 30, elapsed |-> 15]
    /\ call.before.timer = [duration |-> 30, elapsed |-> 15]

\* A unit and an enemy as the resolver's condition pairs them: the unit is
\* Patrolling, of the enemy's combat type, and its elapsed fraction is at
\* least the enemy's remaining fraction.
Qualifies(u, e) ==
    /\ u.alive
    /\ u.state = "Patrolling"
    /\ u.combat_type = e.combat_type
    /\ u.timer.elapsed * e.progress.duration >=
           (e.progress.duration - e.progress.elapsed) * u.timer.duration

\* Whether the enemy e is among the enemies es.
Among(e, es) == \E k \in 1..Len(es) : es[k] = e

\* C7 as stated: every pair that qualifies before the pass has its unit
\* Returning and its enemy removed after it.
C7_EveryQualifyingPairResolved ==
    call.op = "resolve" =>
        \A i \in UnitIds : \A k \in 1..Len(given.enemies) :
            Qualifies(given.units[i], given.enemies[k]) =>
                /\ units[i].state = "Returning"
                /\ ~Among(given.enemies[k], enemies)

\* C7, amended: a unit that qualifies for some enemy is Returning after the
\* pass, with its patrol timer and combat type and 0.25 less health; an
\* enemy is removed exactly when some unit qualifies for it and for no
\* enemy before it in iteration order, since a unit intercepts only the
\* first enemy it qualifies for.  Equal fractions qualify.
C7_UnitReturnsFirstEnemyRemoved ==
    call.op = "resolve" =>
        /\ \A i \in UnitIds :
              (\E k \in 1..Len(given.enemies) : Qualifies(given.units[i], given.enemies[k])) =>
                  /\ units[i].state = "Returning"
                  /\ units[i].timer = given.units[i].timer
                  /\ units[i].combat_type = given.units[i].combat_type
                  /\ units[i].health = given.units[i].health - 15
        /\ \A k \in 1..Len(given.enemies) :
              ~Among(given.enemies[k], enemies) =
                  \E i \in UnitIds :
                      /\ Qualifies(given.units[i], given.enemies[k])
                      /\ \A j \in 1..(k - 1) : ~Qualifies(given.units[i], given.enemies[j])

\* C7 witness: a unit at progress 0.5 met an enemy at remaining 0.5 and is
\* Returning, the enemy is gone, and a second enemy that only this unit
\* qualified for is still there.
C7_Witness ==
    /\ call.op = "resolve"
    /\ Len(given.enemies) = 2
    /\ \E i \in UnitIds :
          /\ given.units[i].state = "Patrolling"
          /\ given.units[i].timer.elapsed = 15
          /\ given.enemies[1].progress.elapsed = 15
          /\ Qualifies(given.units[i], given.enemies[1])
          /\ Qualifies(given.units[i], given.enemies[2])
          /\ units[i].state = "Returning"
    /\ enemies = <<given.enemies[2]>>

\* The enemies of the last pass for which some pair qualified.
QualifyingEnemies ==
    {k \in 1..Len(given.enemies) :
        \E i \in UnitIds : Qualifies(given.units[i], given.enemies[k])}

\* C8: when no pair qualifies, the pass leaves every unit and the enemies
\* as they were; a unit that is not Patrolling, and a Patrolling unit whose
\* combat type differs from every qualifying enemy's, is never modified.
C8_NoQualifyingPairNoChange ==
    call.op = "resolve" =>
        /\ QualifyingEnemies = {} => (units = given.units /\ enemies = given.enemies)
        /\ \A i \in UnitIds :
              (\/ given.units[i].state # "Patrolling"
               \/ \A k \in QualifyingEnemies :
                     given.units[i].combat_type # given.enemies[k].combat_type)
              => units[i] = given.units[i]

\* C8 witness: a unit at progress 0.5 has passed over an enemy of the other
\* type at remaining 0.4, and one at progress 0.3 over an enemy of its own
\* type at remaining 0.4; nothing has changed.
C8_Witness ==
    /\ call.op = "resolve"
    /\ given.enemies # << >>
    /\ units = given.units
    /\ enemies = given.enemies
    /\ \E i, j \in UnitIds : \E k \in 1..Len(enemies) :
          /\ enemies[k].progress.elapsed = 18
          /\ units[i].state = "Patrolling" /\ units[i].timer.elapsed = 15
          /\ units[i].combat_type # enemies[k].combat_type
          /\ units[j].state = "Patrolling" /\ units[j].timer.elapsed = 9
          /\ units[j].combat_type = enemies[k].combat_type

\* C9 as stated: when several units qualify for the one enemy of a pass,
\* exactly one of them is Returning with less health afterwards and the
\* others are as they were.
C9_OneEligibleUnitWins ==
    (call.op = "resolve" /\ Len(given.enemies) = 1) =>
        LET eligible == {i \in UnitIds : Qualifies(given.units[i], given.enemies[1])}
        IN  Cardinality(eligible) >= 2 =>
                \E w \in eligible :
                    /\ units[w].state = "Returning"
                    /\ units[w].health < given.units[w].health
                    /\ \A o \in eligible \ {w} : units[o] = given.units[o]

\* The (state, state) steps the player's buttons make.
CommandSteps ==
    {<<"InStorage", "UnStoring">>,
     <<"ParkedUnready", "ParkedPreparing">>,
     <<"ParkedUnready", "Storing">>,
     <<"WaitingToPark", "Storing">>,
     <<"ParkedReady", "Patrolling">>,
     <<"WaitingToPark", "Parking">>}

\* C10: a frame that starts in GameOver ends in GameOver, and applies no
\* tick, resolution, spawn or repair: the enemies, the spawner and every
\* unit's health are as they were, and a unit differs only by the step of
\* a button, which starts its timer afresh; the pool's occupancy changes
\* only with such a step.
C10_GameOverIsFrozen ==
    [][game_state = "GameOver" =>
          /\ game_state' = "GameOver"
          /\ enemies' = enemies
          /\ spawner' = spawner
          /\ \A i \in UnitIds :
                /\ units'[i].health = units[i].health
                /\ units'[i].alive = units[i].alive
                /\ units'[i] # units[i] =>
                      /\ <<units[i].state, units'[i].state>> \in CommandSteps
                      /\ units'[i].timer.elapsed = 0
          /\ units' = units =>
                slots_used(strong_count(units', loose')) = slots_used(strong_count(units, loose))
      ]_vars

\* C10 witness: the game is over with an enemy past its run time, and two
\* units stand in timed states with timers that were started in different
\* frames and have not been ticked since.
C10_Witness ==
    /\ game_state = "GameOver"
    /\ \E k \in 1..Len(enemies) : enemies[k].progress.elapsed > enemies[k].progress.duration
    /\ \E i, j \in UnitIds :
          /\ i # j
          /\ units[i].state = "Storing" /\ units[i].timer.elapsed = 0
          /\ units[j].state = "UnStoring" /\ units[j].timer.elapsed = 0

\* C11: GameOver events are sent in a frame exactly when the game is
\* Running at its start and some enemy's progress timer, ticked by the
\* frame's delta, is past its duration; one event per such enemy, and none
\* when there is no such enemy.
C11_GameOverIffEnemyFinished ==
    [][LET done == {k \in 1..Len(enemies) :
                      enemies[k].progress.elapsed + delta > enemies[k].progress.duration}
       IN  /\ (ev_game_over' > 0) = (game_state = "Running" /\ done # {})
           /\ game_state = "Running" => ev_game_over' = Cardinality(done)
      ]_vars

\* C11 witness: the last frame sent a GameOver event for an enemy that its
\* tick took from 30 s to 35 s of a 30 s run.
C11_Witness ==
    /\ ev_game_over > 0
    /\ \E k \in 1..Len(enemies) : enemies[k].progress = [duration |-> 30, elapsed |-> 35]

\* C12 as stated: a tick turns a WaitingToPark unit into ParkedUnready
\* with a token when the pool has a free one, and leaves it WaitingToPark
\* when the pool is full.
C12_WaitingUnitParksByTick ==
    [][call'.op = "tick" =>
          \A i \in UnitIds :
              (units[i].state = "WaitingToPark"
               /\ \A j \in UnitIds \ {i} : units[j].state # "WaitingToPark") =>
                  IF call'.used < MaxCount
                  THEN units'[i].state = "ParkedUnready" /\ units'[i].token = 1
                  ELSE units'[i].state = "WaitingToPark"
      ]_vars

\* C12, amended: a tick leaves a WaitingToPark unit as it is, whether the
\* pool has a free token or not; the unit parks only by
\* park_after_returning, which takes a token from a pool that has one and
\* makes it Parking with a fresh 5 s timer, and a Parking unit that is
\* ticked keeps its token and is ParkedUnready once its timer is past 5 s.
C12_WaitingUnitParksByCommand ==
    [][\A i \in UnitIds :
          /\ (call'.op = "tick" /\ units[i].state = "WaitingToPark") =>
                units'[i] = units[i]
          /\ (call'.op = "park_after_returning" /\ call'.unit = i /\ ~panicked') =>
                /\ units[i].state = "WaitingToPark"
                /\ call'.used < MaxCount
                /\ units'[i].state = "Parking"
                /\ units'[i].timer = [duration |-> 5, elapsed |-> 0]
                /\ units'[i].token = 1
                /\ slots_used(strong_count(units', loose')) = call'.used + 1
          /\ (call'.op = "tick" /\ units[i].state = "Parking") =>
                /\ units'[i].token = 1
                /\ \/ /\ units'[i].state = "Parking"
                      /\ units'[i].timer.duration = 5
                      /\ units'[i].timer.elapsed > units[i].timer.elapsed
                      /\ units'[i].timer.elapsed <= 5
                   \/ /\ units'[i].state = "ParkedUnready"
                      /\ \E d \in Deltas : units[i].timer.elapsed + d > 5
      ]_vars

\* C12 witness: a unit is still WaitingToPark after a tick that found the
\* pool with a free token.
C12_Witness ==
    /\ call.op = "tick"
    /\ call.used < MaxCount
    /\ \E i \in UnitIds : units[i].state = "WaitingToPark"

\* C13 as stated: un_store on an InStorage unit, or park_after_returning
\* on a WaitingToPark unit, called with the pool at capacity, does not
\* panic; the unit keeps its state (or waits) and the pool count is as it
\* was.
C13_ExhaustionIsNotFatal ==
    (/\ call.used = MaxCount
     /\ \/ call.op = "un_store" /\ call.before.state = "InStorage"
        \/ call.op = "park_after_returning" /\ call.before.state = "WaitingToPark") =>
        /\ ~panicked
        /\ units[call.unit].state \in {call.before.state, "WaitingToPark"}
        /\ SlotsUsed = call.used

\* C14: take_off from ParkedReady, and move_into_storage from
\* ParkedUnready, ParkedPreparing or ParkedReady, lower slots_used by
\* exactly one in the call itself, the unit holding no token from then on;
\* move_into_storage from WaitingToPark leaves slots_used as it was.
C14_TokenReleasedAtTransition ==
    /\ (call.op = "take_off" /\ ~panicked) =>
          /\ call.before.state = "ParkedReady"
          /\ units[call.unit].state = "Patrolling"
          /\ units[call.unit].timer.elapsed = 0
          /\ SlotsUsed = call.used - 1
    /\ (call.op = "move_into_storage" /\ ~panicked) =>
          /\ units[call.unit].state = "Storing"
          /\ units[call.unit].timer.elapsed = 0
          /\ SlotsUsed = IF call.before.state = "WaitingToPark" THEN call.used
                         ELSE call.used - 1
    /\ \A i \in UnitIds : units[i].state \in {"Patrolling", "Storing"} => units[i].token = 0

\* C14 witness: move_into_storage has just taken a unit out of
\* ParkedPreparing, and the pool, full before the call, has a free slot.
C14_Witness ==
    /\ call.op = "move_into_storage"
    /\ ~panicked
    /\ call.before.state = "ParkedPreparing"
    /\ call.used = MaxCount
    /\ SlotsUsed = MaxCount - 1

\* C15: the duration on the spawner's countdown timer, the first one and
\* each one installed after a spawn, is at least 1 s and at most 10 s,
\* whatever the mean and the sample.
C15_SpawnIntervalWithinClamp ==
    /\ spawner.time_to_next_spawn.duration >= 1
    /\ spawner.time_to_next_spawn.duration <= 10

\* C15 witness: with the mean below 1 s, a spawn has just installed the
\* 10 s that a sample of 14 s is clamped to.
C15_Witness ==
    /\ spawner.mean < 1000000
    /\ spawner.time_to_next_spawn = [duration |-> 10, elapsed |-> 0]

\* Whether the step's tick, of delta' seconds, takes the countdown timer
\* past its duration.
SpawnEvent ==
    spawner.time_to_next_spawn.elapsed + delta' > spawner.time_to_next_spawn.duration

\* C16 as stated: the mean strictly decreases at every spawn event, does
\* not change in a tick that does not spawn, and stays at or above the
\* 1 s floor of the clamp.
C16_MeanDecreasesAboveFloor ==
    [][/\ SpawnEvent => spawner'.mean < spawner.mean
       /\ ~SpawnEvent => spawner'.mean = spawner.mean
       /\ spawner'.mean >= 1000000
      ]_vars

\* C16, amended: at every spawn event the mean, while at least one
\* microsecond, becomes 0.97 of itself (in whole microseconds), which is
\* strictly less; it does not change in a tick that does not spawn; it
\* starts at 30 s and is never negative.  The clamp does not bound it.
C16_MeanDecreasesTowardsZero ==
    [][/\ (SpawnEvent /\ spawner.mean >= 1) =>
             /\ spawner'.mean < spawner.mean
             /\ spawner'.mean = 97 * (spawner.mean \div 100)
                                   + (97 * (spawner.mean % 100)) \div 100
       /\ ~SpawnEvent => spawner'.mean = spawner.mean
       /\ spawner'.mean >= 0
       /\ spawner'.mean <= 30000000
      ]_vars

\* C16 witness: the 112th spawn has just taken the mean below the 1 s of
\* the clamp.
C16_Witness ==
    /\ Len(enemies) = 112
    /\ spawner.time_to_next_spawn.elapsed = 0
    /\ spawner.mean > 0
    /\ spawner.mean < 1000000
    /\ spawner.mean >= 970000

\* C17 as stated: after any sequence of repair ticks and hits, every
\* unit's health is at least 0.0 and at most 1.0.
C17_HealthWithinUnitInterval ==
    \A i \in UnitIds : units[i].health >= 0 /\ units[i].health <= 60

\* C17, amended: health never exceeds 1.0; a unit in play has health above
\* 0.0, and the hit that removes a unit leaves its health at or below 0.0
\* and above -0.25.
C17_HealthPositiveWhileInPlay ==
    \A i \in UnitIds :
        /\ units[i].health <= 60
        /\ units[i].alive => units[i].health > 0
        /\ ~units[i].alive => (units[i].health <= 0 /\ units[i].health > -15)

\* C17 witness: a unit that was repaired between hits has been removed by
\* a hit that left its health below 0.0.
C17_Witness ==
    /\ call.op = "take_hit"
    /\ ~units[call.unit].alive
    /\ units[call.unit].health < 0
    /\ given.units[call.unit].health = units[call.unit].health + 15

\* C18: repair_tick raises the health of a unit that is InStorage by
\* delta/15, capped at 1.0, leaves the health of a unit in any other state
\* as it was, and changes nothing else of any unit.
C18_RepairOnlyInStorage ==
    call.op = "repair_tick" =>
        \A i \in UnitIds :
            /\ units[i] = [given.units[i] EXCEPT !.health = units[i].health]
            /\ units[i].health =
                  IF given.units[i].state = "InStorage" /\ given.units[i].alive
                  THEN (IF given.units[i].health + 4 * delta < 60
                        THEN given.units[i].health + 4 * delta ELSE 60)
                  ELSE given.units[i].health

\* C18 witness: a repair tick of 10 s has taken a unit in storage from 0.5
\* to the cap of 1.0 and left a damaged Storing unit as it was.
C18_Witness ==
    /\ call.op = "repair_tick"
    /\ delta = 10
    /\ \E i, j \in UnitIds :
          /\ units[i].state = "InStorage"
          /\ given.units[i].health = 30
          /\ units[i].health = 60
          /\ units[j].state = "Storing"
          /\ units[j].health = 45
          /\ given.units[j].health = 45

\* C19: a unit the resolver pass has hit has exactly 0.25 less health than
\* before and is out of play exactly when that is 0.0 or less, so that a
\* unit at 1.0, 0.75 or 0.5 survives the hit and one at 0.25 does not; a
\* unit the pass has not hit is in play exactly if it was.
C19_HitCostsQuarterRemovedAtZero ==
    call.op = "resolve" =>
        \A i \in UnitIds :
            IF given.units[i].state = "Patrolling" /\ units[i].state = "Returning"
            THEN /\ units[i].health = given.units[i].health - 15
                 /\ units[i].alive = (units[i].health > 0)
                 /\ given.units[i].health \in {60, 45, 30} => units[i].alive
                 /\ given.units[i].health = 15 => ~units[i].alive
            ELSE /\ units[i].health = given.units[i].health
                 /\ units[i].alive = given.units[i].alive

\* C19 witness: one pass has hit a unit at full health, which stays in
\* play at 0.75, and a unit at 0.25, which is removed at 0.0.
C19_Witness ==
    /\ call.op = "resolve"
    /\ \E i, j \in UnitIds :
          /\ given.units[i].health = 60 /\ units[i].health = 45 /\ units[i].alive
          /\ given.units[j].health = 15 /\ units[j].health = 0 /\ ~units[j].alive

\* The health after a repair of the frame's delta.
RepairedHealth(h) == IF h + 4 * delta < 60 THEN h + 4 * delta ELSE 60

\* What a Running frame's order shows on units and enemies.  An enemy
\* spawned in the frame is unticked at its end.  A Patrolling unit is
\* matched on its own and the enemies' ticked timers: if its tick ends the
\* patrol it is not matched, otherwise it is hit exactly when it has
\* caught up with an enemy of its type.  Repair follows the ticks and
\* precedes the commands: a unit that is InStorage after its tick is
\* repaired, whatever a button then does with it.  A button's step leaves
\* a timer that has not been ticked.
FrameOrderEffects ==
    /\ spawner.time_to_next_spawn.elapsed + delta > spawner.time_to_next_spawn.duration =>
          /\ enemies' # << >>
          /\ enemies'[Len(enemies')].progress = [duration |-> 30, elapsed |-> 0]
    /\ \A i \in UnitIds :
          /\ (units[i].state = "Patrolling" /\ units[i].alive) =>
                IF units[i].timer.elapsed + delta > 30
                THEN /\ units'[i].state \in {"WaitingToPark", "Storing", "Parking"}
                     /\ units'[i].health = units[i].health
                ELSE IF \E k \in 1..Len(enemies) :
                           /\ enemies[k].combat_type = units[i].combat_type
                           /\ units[i].timer.elapsed + delta >=
                                  30 - (enemies[k].progress.elapsed + delta)
                     THEN /\ units'[i].state = "Returning"
                          /\ units'[i].timer.elapsed = units[i].timer.elapsed + delta
                          /\ units'[i].health = units[i].health - 15
                     ELSE /\ units'[i].state = "Patrolling"
                          /\ units'[i].timer.elapsed = units[i].timer.elapsed + delta
                          /\ units'[i].health = units[i].health
          /\ (units[i].alive /\ units[i].state = "InStorage") =>
                units'[i].health = RepairedHealth(units[i].health)
          /\ (units[i].alive /\ units[i].state = "Storing") =>
                units'[i].health = IF units[i].timer.elapsed + delta > 10
                                   THEN RepairedHealth(units[i].health)
                                   ELSE units[i].health
          /\ (units[i].state = "InStorage" /\ units'[i].state = "UnStoring") =>
                units'[i].timer = [duration |-> 10, elapsed |-> 0]
          /\ (units[i].state = "ParkedReady" /\ units'[i].state # "ParkedReady") =>
                /\ units'[i].timer.elapsed = 0
                /\ units'[i].health = units[i].health

TickAddsAndKeepsFinished ==
    /\ \A k \in {1, 2} :
          enemies'[k].progress.elapsed =
              enemies[k].progress.elapsed + (IF call'.unit = k THEN call'.used ELSE 0)
    /\ delta' = 0 => enemies'[1].progress.elapsed = enemies'[2].progress.elapsed
    /\ (call.unit = call'.unit /\ call.got = 1) => call'.got = 1

\* C21 as stated: tick is additive, finished() is false below the duration
\* and true from the moment elapsed reaches the duration, and a finished
\* timer stays finished.
C21_FinishedWhenElapsedReachesDuration ==
    [][/\ TickAddsAndKeepsFinished
       /\ (call'.got = 1) =
             (enemies'[call'.unit].progress.elapsed >= enemies'[call'.unit].progress.duration)
      ]_vars

\* C21, amended: tick is additive, finished() is false up to and at the
\* duration and true exactly when elapsed exceeds it, and a finished timer
\* stays finished.
C21_FinishedWhenElapsedExceedsDuration ==
    [][/\ TickAddsAndKeepsFinished
       /\ (call'.got = 1) =
             (enemies'[call'.unit].progress.elapsed > enemies'[call'.unit].progress.duration)
      ]_vars

\* C21 witness: the first timer was ticked at least twice, with positive
\* deltas, the second once with their sum; they agree, and the second,
\* which was still running when elapsed equalled the duration, is now
\* finished.
C21_Witness ==
    /\ call.op = "timer_tick" /\ call.unit = 2 /\ call.got = 1
    /\ call.used = 15
    /\ delta = 0
    /\ enemies[1].progress = enemies[2].progress
    /\ given.enemies[2].progress.elapsed = enemies[2].progress.duration

\* The states a unit can have had at the start of a frame whose ticks
\* leave it in state st.
BeforeTick(st) ==
    CASE st = "InStorage"     -> {"InStorage", "Storing"}
      [] st = "ParkedUnready" -> {"ParkedUnready", "UnStoring", "Parking"}
      [] st = "ParkedReady"   -> {"ParkedReady", "ParkedPreparing"}
      [] st = "WaitingToPark" -> {"WaitingToPark", "Patrolling", "Returning"}
      [] OTHER                -> {st}

\* The source states of the commands that leave a unit in state st.
CommandSources(st) ==
    CASE st = "UnStoring"       -> {"InStorage"}
      [] st = "ParkedPreparing" -> {"ParkedUnready"}
      [] st = "Patrolling"      -> {"ParkedReady"}
      [] st = "Parking"         -> {"WaitingToPark"}
      [] st = "Storing"         -> {"ParkedUnready", "WaitingToPark"}
      [] OTHER                  -> {}

\* C22: in every frame, whatever button is clicked, the command reaches a
\* unit that the frame's ticks have left in the command's source state, a
\* unit is given a parking token only when the pool has one to give, and
\* no call panics.
C22_CommandsNeverPanic ==
    [][/\ ~panicked'
       /\ \A i \in UnitIds :
             /\ (units'[i].state \in {"UnStoring", "ParkedPreparing", "Parking", "Storing"}
                    /\ units'[i].state # units[i].state) =>
                   \E st \in CommandSources(units'[i].state) : units[i].state \in BeforeTick(st)
             /\ (units'[i].token > units[i].token) =>
                   /\ SlotsUsed < MaxCount
                   /\ units'[i].state \in {"UnStoring", "Parking"}
      ]_vars

\* C22 witness: a unit has been parked after returning, which took the
\* pool's last token, while another unit waits in a state whose
\* token-requiring button is therefore disabled; nothing has panicked.
C22_Witness ==
    /\ ~panicked
    /\ SlotsUsed = MaxCount
    /\ \E i, j \in UnitIds :
          /\ units[i].state = "Parking" /\ units[i].alive
          /\ units[j].state \in {"InStorage", "WaitingToPark"} /\ units[j].alive

\* The state a timed state's tick leads to when its timer finishes.
TickSuccessor(st) ==
    CASE st \in {"UnStoring", "Parking"}     -> "ParkedUnready"
      [] st = "ParkedPreparing"              -> "ParkedReady"
      [] st = "Storing"                      -> "InStorage"
      [] st \in {"Patrolling", "Returning"}  -> "WaitingToPark"
      [] OTHER                               -> st

Timed == {"UnStoring", "Parking", "ParkedPreparing", "Storing", "Patrolling", "Returning"}

\* In a frame without a click a unit changes state only to the successor
\* of its state, or from Patrolling to Returning when the resolver has it
\* hit; a unit in a state without a timer does not change state.
OnlyToSuccessor ==
    [][\A i \in UnitIds :
          units'[i].state # units[i].state =>
              \/ units'[i].state = TickSuccessor(units[i].state)
              \/ /\ units[i].state = "Patrolling"
                 /\ units'[i].state = "Returning"
                 /\ units'[i].health < units[i].health
      ]_vars

\* C23 as stated: with frames arriving for ever, a unit in a timed state
\* reaches the successor of its state (or is removed), and units change
\* state only to successors.
C23_TimedStateAlwaysLeft ==
    /\ OnlyToSuccessor
    /\ \A i \in UnitIds : \A st \in Timed :
          (units[i].alive /\ units[i].state = st)
              ~> (units[i].state = TickSuccessor(st) \/ ~units[i].alive)

\* C23, amended: with frames arriving for ever, a unit in a timed state
\* reaches the successor of its state (or is removed) unless the game is
\* over first, and units change state only to successors.
C23_TimedStateLeftWhileRunning ==
    /\ OnlyToSuccessor
    /\ \A i \in UnitIds : \A st \in Timed :
          (units[i].alive /\ units[i].state = st)
              ~> (units[i].state = TickSuccessor(st) \/ ~units[i].alive
                    \/ game_state = "GameOver")

\* C23 witness: the game is still Running; a unit that began Parking is
\* ParkedUnready, or one that began Storing is InStorage, and the other
\* unit, which began on patrol, is WaitingToPark.
C23_Witness ==
    /\ game_state = "Running"
    /\ \E i, j \in UnitIds :
          /\ \/ given.units[i].state = "Parking" /\ units[i].state = "ParkedUnready"
             \/ given.units[i].state = "Storing" /\ units[i].state = "InStorage"
          /\ given.units[j].state = "Patrolling" /\ units[j].state = "WaitingToPark"

\* The states whose variant carries a combat type, in lifecycle order.
Typed == {"ParkedPreparing", "ParkedReady", "Patrolling", "Returning"}

\* Whether, after the frame's tick, unit u has caught up with enemy e of
\* its own combat type.
MeetsAfterTick(u, e) ==
    /\ e.combat_type = u.combat_type
    /\ (u.timer.elapsed + delta) * e.progress.duration >=
           (e.progress.duration - (e.progress.elapsed + delta)) * u.timer.duration

\* C24: over every frame, a unit that stays within ParkedPreparing,
\* ParkedReady, Patrolling and Returning keeps the combat type it was
\* prepared for; a unit becomes Returning only in a frame in which an enemy
\* of its own type has qualified against it, and is then hit once however
\* many qualify; a unit that is Returning is not hit again and leaves the
\* enemies of its type in play.
C24_TypeCarriedAndMatchedOnce ==
    [][\A i \in UnitIds :
          /\ (units[i].state \in Typed /\ units'[i].state \in Typed) =>
                /\ units'[i].combat_type = units[i].combat_type
                /\ units[i].combat_type \in TypesUsed
          /\ (units[i].state # "Returning" /\ units'[i].state = "Returning") =>
                /\ units[i].state = "Patrolling"
                /\ \E k \in 1..Len(enemies) : MeetsAfterTick(units[i], enemies[k])
                /\ units'[i].health = units[i].health - HitCost
          /\ (units[i].state = "Returning" /\ units[i].alive) =>
                /\ units'[i].health = units[i].health
                /\ units'[i].alive
                /\ (game_state = "Running" /\ ~(\E j \in UnitIds : units[j].state = "Patrolling")) =>
                      \A k \in 1..Len(enemies) :
                          enemies[k].combat_type = units[i].combat_type =>
                              \E n \in 1..Len(enemies') :
                                  /\ enemies'[n].combat_type = enemies[k].combat_type
                                  /\ enemies'[n].progress.elapsed =
                                         enemies[k].progress.elapsed + delta
      ]_vars

\* C24 witness: a unit prepared for a type is Returning with that type,
\* one hit taken, and an enemy of the same type that has been through a
\* resolver pass, and that the unit's progress would have met, is in play.
C24_Witness ==
    \E i \in UnitIds : \E k \in 1..Len(enemies) :
        /\ units[i].state = "Returning" /\ units[i].alive
        /\ units[i].health = HealthFull - HitCost
        /\ enemies[k].combat_type = units[i].combat_type
        /\ enemies[k].progress.elapsed > 0
        /\ units[i].timer.elapsed * 30 >= (30 - enemies[k].progress.elapsed) * 30

\* The spawned units that are in a state holding a parking token.
HoldingUnits == {i \in UnitIds : units[i].alive /\ units[i].state \in Holding}

\* Whether gui has, in the state as it is, a button whose click takes the
\* parking token from unit i.
CanRelease(i) ==
    \E click \in Clicks(units, loose) :
        /\ click.unit = i
        /\ gui(units, loose, click).units[i].token = 0

\* A unit is removed only out of a patrol, holding no token; slots_used is
\* the number of spawned units in token-holding states, hence 0 when every
\* remaining unit is InStorage, Storing, Patrolling, Returning or
\* WaitingToPark; a token is given back only by a step into Patrolling or
\* into Storing.
NoTokenLost ==
    /\ [](SlotsUsed = Cardinality(HoldingUnits))
    /\ [](\A i \in UnitIds : units[i].token = 1 => units[i].alive /\ units[i].state \in Holding)
    /\ [][\A i \in UnitIds :
             /\ (units[i].alive /\ ~units'[i].alive) =>
                   /\ units[i].state = "Patrolling"
                   /\ units[i].token = 0
                   /\ units'[i].token = 0
             /\ (units[i].token = 1 /\ units'[i].token = 0) =>
                   units'[i].state \in {"Patrolling", "Storing"}
         ]_vars

\* C25 as stated: no token is lost, and the pool can be brought back to
\* full capacity from every state: each token held is held by a unit that
\* has a button giving it back, or whose timer is still being ticked.
C25_PoolCanAlwaysBeRefilled ==
    /\ NoTokenLost
    /\ [](\A i \in HoldingUnits :
             \/ units[i].state \in {"ParkedUnready", "ParkedReady"}
             \/ game_state = "Running")

\* C25, amended: no token is lost; the player can take the token from a
\* unit exactly while it is ParkedUnready or ParkedReady; a unit that is
\* UnStoring, ParkedPreparing or Parking when the game is over keeps its
\* state and its token in every later frame.
C25_TokenKeptOnlyByFrozenUnit ==
    /\ NoTokenLost
    /\ [](\A i \in HoldingUnits :
             CanRelease(i) = (units[i].state \in {"ParkedUnready", "ParkedReady"}))
    /\ [][game_state = "GameOver" =>
             \A i \in HoldingUnits :
                 units[i].state \in {"UnStoring", "ParkedPreparing", "Parking"} =>
                     units'[i] = units[i]
         ]_vars

\* C25 witness: a unit has been removed, holding no token; the unit that
\* remains, which held the pool's token, has been moved into storage, and
\* no slot is in use.
C25_Witness ==
    \E i, j \in UnitIds :
        /\ given.units[i].alive /\ ~units[i].alive /\ units[i].token = 0
        /\ given.units[j].token = 1
        /\ units[j].alive /\ units[j].state = "Storing"
        /\ SlotsUsed = 0

\* The enemies whose timer the frame's tick takes past its duration.
FinishingEnemies ==
    {k \in 1..Len(enemies) : enemies[k].progress.elapsed + delta > enemies[k].progress.duration}

\* The enemies that the frame removes: as ticked, they are not among the
\* enemies afterwards (enemies of one type never have the same progress).
RemovedEnemies ==
    {k \in 1..Len(enemies) :
        ~\E n \in 1..Len(enemies') :
            /\ enemies'[n].combat_type = enemies[k].combat_type
            /\ enemies'[n].progress.elapsed = enemies[k].progress.elapsed + delta}

\* An enemy is removed only when a Patrolling unit of its type, still on
\* patrol after the tick, has caught up with it and is hit.
RemovedByInterception ==
    \A k \in RemovedEnemies :
        \E i \in UnitIds :
            /\ units[i].alive /\ units[i].state = "Patrolling"
            /\ units[i].combat_type = enemies[k].combat_type
            /\ units[i].timer.elapsed + delta >= 30 - (enemies[k].progress.elapsed + delta)
            /\ units'[i].state = "Returning"
            /\ units'[i].health = units[i].health - HitCost

\* C26 as stated: in a Running frame the game-over events are those of the
\* enemies that finish and are not intercepted; an enemy that the resolver
\* removes sends none.
C26_InterceptedEnemyNeverEndsGame ==
    [][game_state = "Running" =>
          /\ RemovedByInterception
          /\ ev_game_over' = Cardinality(FinishingEnemies \ RemovedEnemies)
      ]_vars

\* C26, amended: in a Running frame every enemy whose timer finishes sends
\* a game-over event, whether or not the resolver removes it in that
\* frame; an enemy removed before its timer finishes sends none.
C26_InterceptedEnemyEndsGameIfFinished ==
    [][game_state = "Running" =>
          /\ RemovedByInterception
          /\ ev_game_over' = Cardinality(FinishingEnemies)
      ]_vars

\* C26 witness: game over has been signalled on account of one enemy, and
\* that enemy is gone: no enemy in play is past its duration, and the unit
\* that intercepted it is on its way back.
C26_Witness ==
    /\ ev_game_over = 1
    /\ \A k \in 1..Len(enemies) : ~finished(enemies[k].progress)
    /\ \E i \in UnitIds : units[i].state = "Returning" /\ units[i].alive

====
